---- MODULE Spec2Model ----
(***************************************************************************)
(* zookeeper-exporter: the scrape pipeline of the latest revision          *)
(* (src/unnamed/part_000, lines 184-418): serveMetrics' handler calls      *)
(* getMetrics, which probes every configured host in turn with "mntr" and  *)
(* "ruok" and fills one map of metric name -> value.                       *)
(*                                                                         *)
(* Texts.  A Go string is modelled as a sequence of tokens.  Every         *)
(* character the code looks at on its own (space, tab, newline, '-', '.',  *)
(* '{', '}', '"', ',', '+') is a token of its own; a maximal run of digits *)
(* is one token and a maximal run of other characters is one token.        *)
(* strings.Split, strings.Replace and strings.Contains are computed on     *)
(* these sequences the way the library computes them on bytes.             *)
(***************************************************************************)
EXTENDS Integers, Sequences, FiniteSets, TLC

VARIABLES
    Hosts,      \* options.Hosts, fixed after main
    pc,         \* position of the handler / of getMetrics
    idx,        \* index of the host the range loop is at (1-based)
    metrics,    \* the map getMetrics fills
    open,       \* number of connections dialled and not yet closed
    log,        \* set of messages written with log.Printf since the request began
    hist,       \* per list entry: what happened while it was probed (history)
    solo,       \* per list entry: the map its probing fills when started empty
    status,     \* what the HTTP client of this request has got
    body        \* set of lines the handler wrote to the response

vars == <<Hosts, pc, idx, metrics, open, log, hist, solo, status, body>>

(***************************************************************************)
(* Bounds                                                                  *)
(***************************************************************************)
NumHosts == 2       \* size of the universe of host names, longest list

(***************************************************************************)
(* Text helpers                                                            *)
(***************************************************************************)
RECURSIVE Split(_, _)
Split(s, sep) ==
    IF \A i \in 1..Len(s) : s[i] # sep
    THEN <<s>>
    ELSE LET i == CHOOSE i \in 1..Len(s) :
                     s[i] = sep /\ \A j \in 1..(i - 1) : s[j] # sep
         IN  <<SubSeq(s, 1, i - 1)>> \o Split(SubSeq(s, i + 1, Len(s)), sep)

Replace(s, old, new) == [i \in 1..Len(s) |-> IF s[i] = old THEN new ELSE s[i]]

Contains(s, sub) ==
    \E i \in 0..(Len(s) - Len(sub)) : SubSeq(s, i + 1, i + Len(sub)) = sub

(***************************************************************************)
(* Program constants                                                       *)
(***************************************************************************)
instanceNotServingMessage ==
    <<"This", " ", "ZooKeeper", " ", "instance", " ", "is", " ", "not", " ",
      "currently", " ", "serving", " ", "requests">>

cmdNotExecutedSffx ==
    <<"is", " ", "not", " ", "executed", " ", "because", " ", "it", " ", "is",
      " ", "not", " ", "in", " ", "the", " ", "whitelist", ".">>

imok == <<"imok">>

(***************************************************************************)
(* Map helpers (Go map[string]string)                                      *)
(***************************************************************************)
EmptyMap == [k \in {} |-> <<>>]

Put(m, k, v) == [x \in (DOMAIN m) \cup {k} |-> IF x = k THEN v ELSE m[x]]

(***************************************************************************)
(* Token classes                                                           *)
(***************************************************************************)
Specials == {" ", "\t", "\n", "-", ".", "{", "}", "\"", ",", "+"}
Numerals == {"0", "1", "3", "4", "7", "10"}
IsWord(t) == t \notin Specials /\ t \notin Numerals

\* fmt.Sprintf and strings.Replace yield one Go string: adjacent runs of
\* ordinary characters are one run.
RECURSIVE Canon(_)
Canon(s) ==
    IF Len(s) < 2 THEN s
    ELSE IF IsWord(s[1]) /\ IsWord(s[2])
         THEN Canon(<<s[1] \o s[2]>> \o SubSeq(s, 3, Len(s)))
         ELSE <<s[1]>> \o Canon(Tail(s))

\* the characters of a text, one after the other, as one string
RECURSIVE Flat(_)
Flat(s) == IF s = <<>> THEN "" ELSE s[1] \o Flat(Tail(s))

One == <<"1">>
Zero == <<"0">>

(***************************************************************************)
(* Names of the metrics of one host                                        *)
(***************************************************************************)
\* a variant whose label does not tell the hosts apart
hostLabel_NoHost(h) == <<"zk_host=", "\"", "\"">>

\* fmt.Sprintf("zk_host=%q", h)
hostLabel(h) == <<"zk_host=", "\"", h, "\"">>

\* fmt.Sprintf("zk_up{%s}", hostLabel)
zkUp(h) == <<"zk_up", "{">> \o hostLabel(h) \o <<"}">>

\* fmt.Sprintf("zk_server_leader{%s}", hostLabel)
zkLeader(h) == <<"zk_server_leader", "{">> \o hostLabel(h) \o <<"}">>

\* fmt.Sprintf("zk_ruok{%s}", hostLabel)
zkRuok(h) == <<"zk_ruok", "{">> \o hostLabel(h) \o <<"}">>

\* fmt.Sprintf("zk_version{%s,version=%q}", hostLabel, version)
zkVersion(h, version) ==
    <<"zk_version", "{">> \o hostLabel(h) \o <<",", "version=", "\"">>
        \o version \o <<"\"", "}">>

\* fmt.Sprintf("zk_peer_state{%s,state=%q}", hostLabel, value)
zkPeerState(h, value) ==
    <<"zk_peer_state", "{">> \o hostLabel(h) \o <<",", "state=", "\"">>
        \o value \o <<"\"", "}">>

(***************************************************************************)
(* versionRE, metricNameReplacer, isDigit                                  *)
(***************************************************************************)
\* versionRE.ReplaceAllString(value, "$1") with
\* versionRE = ^([0-9]+\.[0-9]+\.[0-9]+).*$
versionRE(value) ==
    IF /\ Len(value) >= 5
       /\ value[1] \in Numerals /\ value[2] = "." /\ value[3] \in Numerals
       /\ value[4] = "." /\ value[5] \in Numerals
    THEN SubSeq(value, 1, 5)
    ELSE value

\* a variant that replaces hyphens only
metricNameReplacer_HyphenOnly(key) ==
    Canon([i \in 1..Len(key) |-> IF key[i] = "-" THEN "_" ELSE key[i]])

\* strings.NewReplacer("-", "_", ".", "_").Replace(key)
metricNameReplacer(key) ==
    Canon([i \in 1..Len(key) |-> IF key[i] \in {"-", "."} THEN "_" ELSE key[i]])

\* strings.Replace(k, "}", ",", 1): the first occurrence only
ReplaceFirst(s, old, new) ==
    IF \A i \in 1..Len(s) : s[i] # old THEN s
    ELSE LET i == CHOOSE i \in 1..Len(s) :
                     s[i] = old /\ \A j \in 1..(i - 1) : s[j] # old
         IN  [j \in 1..Len(s) |-> IF j = i THEN new ELSE s[j]]

Unsigned(v) == IF Len(v) > 0 /\ v[1] \in {"+", "-"} THEN Tail(v) ELSE v

IsInt(v) == Len(Unsigned(v)) = 1 /\ Unsigned(v)[1] \in Numerals

IsMantissa(u) ==
    \/ Len(u) = 1 /\ u[1] \in Numerals
    \/ Len(u) = 2 /\ u[1] \in Numerals /\ u[2] = "."
    \/ Len(u) = 2 /\ u[1] = "." /\ u[2] \in Numerals
    \/ Len(u) = 3 /\ u[1] \in Numerals /\ u[2] = "." /\ u[3] \in Numerals

IsExponent(u) ==
    /\ Len(u) >= 2
    /\ u[1] \in {"e", "E"}
    /\ Len(Unsigned(Tail(u))) = 1
    /\ Unsigned(Tail(u))[1] \in Numerals

IsFloat(v) ==
    \/ Unsigned(v) \in {<<"inf">>, <<"Inf">>, <<"infinity">>, <<"Infinity">>}
    \/ v \in {<<"nan">>, <<"NaN">>}
    \/ \E k \in 1..Len(Unsigned(v)) :
          /\ IsMantissa(SubSeq(Unsigned(v), 1, k))
          /\ \/ k = Len(Unsigned(v))
             \/ IsExponent(SubSeq(Unsigned(v), k + 1, Len(Unsigned(v))))

\* strconv.Atoi succeeds, or else strconv.ParseFloat(in, 64) succeeds
isDigit(in) == IsInt(in) \/ IsFloat(in)

(***************************************************************************)
(* Log messages                                                            *)
(***************************************************************************)
LogCannotResolve(h) == <<"cannot resolve zk hostname", h>>
LogCannotConnect(h) == <<"cannot connect to", h>>
\* commandNotAllowedTmpl with its arguments: command, host label
LogNotAllowed(cmd, h) == <<"command isn't allowed at", cmd, hostLabel(h)>>
LogSkipping(key, value) == <<"skipping metric", key, value>>
LogSendFailed(cmd, h) == <<"failed to send", cmd, h>>
LogReadFailed(cmd, h) == <<"failed read", cmd, h>>

(***************************************************************************)
(* The line loop of getMetrics                                             *)
(***************************************************************************)
\* the key of the default case
defaultKey(key, h) ==
    IF Contains(key, <<"}">>)
    THEN Canon(ReplaceFirst(metricNameReplacer(key), "}", ",")
                   \o hostLabel(h) \o <<"}">>)
    ELSE Canon(metricNameReplacer(key) \o <<"{">> \o hostLabel(h) \o <<"}">>)

\* strings.Split(strings.Replace(l, "\t", " ", -1), " ")
splitLine(l) == Split(Replace(l, "\t", " "), " ")

\* One pass of the body of "for _, l := range lines" on a line that is not
\* empty and has a kv[1]: the map and the log after it.
parseLine(key, value, h, m, lg) ==
    CASE key = <<"zk_server_state">> ->
            [m |-> Put(m, zkLeader(h), IF value = <<"leader">> THEN One ELSE Zero),
             lg |-> lg]
      [] key = <<"zk_version">> ->
            [m |-> Put(m, zkVersion(h, versionRE(value)), One), lg |-> lg]
      [] key = <<"zk_peer_state">> ->
            [m |-> Put(m, zkPeerState(h, value), One), lg |-> lg]
      [] OTHER ->
            IF ~isDigit(value)
            THEN [m |-> m, lg |-> lg \cup {LogSkipping(key, value)}]
            ELSE [m |-> Put(m, defaultKey(key, h), value), lg |-> lg]

\* The whole loop from line i on.  kv[1] of a line without a separator is an
\* index out of range: the goroutine panics and the loop never finishes.
RECURSIVE parseLines(_, _, _, _, _)
parseLines(lines, i, h, m, lg) ==
    IF i > Len(lines) THEN [m |-> m, lg |-> lg, panic |-> FALSE]
    ELSE IF lines[i] = <<>> THEN parseLines(lines, i + 1, h, m, lg)
    ELSE LET kv == splitLine(lines[i])
         IN  IF Len(kv) < 2
             THEN [m |-> m, lg |-> lg, panic |-> TRUE]
             ELSE LET r == parseLine(kv[1], kv[2], h, m, lg)
                  IN  parseLines(lines, i + 1, h, r.m, r.lg)

(***************************************************************************)
(* What getMetrics does with the outcome of each step for host h, as a     *)
(* function of the map m it has filled so far                              *)
(***************************************************************************)
\* a variant that records zk_up = "0" for a host it could not resolve
onResolveError_Up0(m, h) == Put(m, zkUp(h), Zero)

\* net.ResolveTCPAddr failed: a warning and continue, the map is not touched
onResolveError(m, h) == m

\* a variant that starts the map afresh when a connection fails
onConnectError_Reset(m, h) == Put(EmptyMap, zkUp(h), Zero)

\* a variant that also writes zk_ruok when the connection for mntr fails
onConnectError_Ruok(m, h) == Put(Put(m, zkUp(h), Zero), zkRuok(h), Zero)

\* dial for mntr failed: metrics[zkUp] = "0"
onConnectError(m, h) == Put(m, zkUp(h), Zero)

\* lines := strings.Split(res, "\n")
responseLines(res) == Split(res, "\n")

\* a variant that looks for the message anywhere in the first line
isNotServing_Contains(lines) == Contains(lines[1], instanceNotServingMessage)

\* lines[0] == instanceNotServingMessage
isNotServing(lines) == lines[1] = instanceNotServingMessage

\* strings.Contains(lines[0], cmdNotExecutedSffx)
isNotAllowed(lines) == Contains(lines[1], cmdNotExecutedSffx)

\* the not-serving shortcut
onNotServing(m, h) == Put(Put(m, zkUp(h), One), zkLeader(h), One)

\* a variant that reports the host up although mntr was refused
onNotAllowed_Up1(m, h) == Put(m, zkUp(h), One)

\* the whitelist shortcut
onNotAllowed(m, h) == Put(m, zkUp(h), Zero)

\* Everything between the return of sendZookeeperCmd(conn, h, "mntr") and
\* the dial for ruok: the map, the log and where control goes.
onMntrResponse(res, h, m, lg) ==
    LET lines == responseLines(res)
    IN  IF isNotServing(lines)
        THEN [m |-> onNotServing(m, h), lg |-> lg, next |-> "continue"]
        ELSE IF isNotAllowed(lines)
        THEN [m |-> onNotAllowed(m, h),
              lg |-> lg \cup {LogNotAllowed("mntr", h)}, next |-> "continue"]
        ELSE LET r == parseLines(lines, 1, h, m, lg)
             IN  [m |-> r.m, lg |-> r.lg,
                  next |-> IF r.panic THEN "panic" ELSE "ruok"]

\* res == "imok"
ruokValue(res) == IF res = imok THEN One ELSE Zero

\* a variant that leaves zk_up out when the connection for ruok fails
onRuokConnectError_NoUp(m, h) == Put(m, zkRuok(h), Zero)

\* a variant that takes the failed ruok connection for a host that is down
onRuokConnectError_Up0(m, h) == Put(Put(m, zkRuok(h), Zero), zkUp(h), Zero)

\* the else branch of the dial for ruok, then metrics[zkUp] = "1"
onRuokConnectError(m, h) == Put(Put(m, zkRuok(h), Zero), zkUp(h), One)

\* the branch after sendZookeeperCmd(conn, h, "ruok"), then metrics[zkUp] = "1"
onRuokResponse(res, h, m) == Put(Put(m, zkRuok(h), ruokValue(res)), zkUp(h), One)

\* a variant that closes the connection only after a clean exchange
afterSend_LeakOnError(n, errs) == IF errs = {} THEN n - 1 ELSE n

\* defer conn.Close() of sendZookeeperCmd: the number of open connections
\* after it returns, whichever of the write and the read failed
afterSend(n, errs) == n - 1

\* the warnings of sendZookeeperCmd
ioWarnings(errs, cmd, h) ==
    (IF "write" \in errs THEN {LogSendFailed(cmd, h)} ELSE {})
        \cup (IF "read" \in errs THEN {LogReadFailed(cmd, h)} ELSE {})

(***************************************************************************)
(* Inputs: configured lists, and what a peer can answer                    *)
(***************************************************************************)
\* A host name is one token: it only ever stands between the quotes of %q.
AllHostNames == <<"zk1:2181", "zk2:2181", "zk3:2181", "zk4:2181">>

\* The configured lists: up to NumHosts hosts, each named once.  Which name
\* stands where makes no difference to getMetrics, so one order is drawn.
TargetLists == {[i \in 1..n |-> AllHostNames[i]] : n \in 1..NumHosts}

NotAllowedLine(cmd) == <<cmd, " ">> \o cmdNotExecutedSffx

AvgLatencyLine == <<"zk_avg_latency", "\t", "0">>
ServerStateLine == <<"zk_server_state", "\t", "follower">>
VersionLine ==
    <<"zk_version", "\t", "3", ".", "4", ".", "10", "-", "abc", ",", " ",
      "built", " ", "on", " ", "today">>

\* Complete answers to mntr (ioutil.ReadAll returned no error).
MntrResponses ==
    { instanceNotServingMessage,
      instanceNotServingMessage \o <<"\n">> \o AvgLatencyLine \o <<"\n">>,
      instanceNotServingMessage \o <<" ", "now", "\n">>,
      AvgLatencyLine \o <<"\n">> \o instanceNotServingMessage \o <<"\n">>,
      NotAllowedLine("mntr") \o <<"\n">>,
      NotAllowedLine("mntr") \o <<"\n">> \o AvgLatencyLine \o <<"\n">>,
      AvgLatencyLine \o <<"\n">> \o ServerStateLine \o <<"\n">>,
      AvgLatencyLine \o <<"\n", "zk_server_state", "\n">>,
      VersionLine \o <<"\n", "zk_server_state", "\t", "leader", "\n">>,
      <<>> }

\* One exchange over a connection: the text ioutil.ReadAll returned and which
\* of conn.Write and ioutil.ReadAll returned an error.
MntrExchanges ==
    {[res |-> r, errs |-> {}] : r \in MntrResponses}
        \cup {[res |-> <<>>, errs |-> {"write", "read"}],
              [res |-> <<>>, errs |-> {"read"}],
              [res |-> AvgLatencyLine \o <<"\n", "zk_serv">>, errs |-> {"read"}]}

RuokExchanges ==
    {[res |-> r, errs |-> {}] :
        r \in {imok, <<>>, <<"imok", "\n">>, NotAllowedLine("ruok")}}
        \cup {[res |-> <<>>, errs |-> {"read"}]}

\* Single lines of a mntr answer: a key, a tab or a space, a value
LineKeys ==
    { <<"zk_avg_latency">>,
      <<"zk_foo", "-", "bar", ".", "baz">>,
      <<"jvm_mem", "{", "area=", "\"", "non", "-", "heap", "\"", "}">>,
      <<"zk_server_state">>,
      <<"zk_version">>,
      <<"zk_peer_state">>,
      <<>> }

LineValues ==
    { <<"0">>, <<"7">>, <<"1", ".", "0">>, <<"1", " ", "3">>,
      <<"leader">>, <<"follower">>,
      <<"leading", " ", "-", " ", "broadcast">>,
      <<"3", ".", "4", ".", "10", "-", "abc", ",", " ", "built">>,
      <<"unknown", " ", "build">>,
      <<"abc">>,
      <<>> }

\* the lines above, and the keys alone with no separator after them
LineTexts ==
    {k \o <<sep>> \o v : k \in LineKeys, sep \in {" ", "\t"}, v \in LineValues}
        \cup LineKeys

\* A complete answer to mntr that is one line and the newline that ends it.
LineExchanges == {[res |-> l \o <<"\n">>, errs |-> {}] : l \in LineTexts}

(***************************************************************************)
(* State machine                                                           *)
(***************************************************************************)
NoHist ==
    [resolve |-> "none", mntrDial |-> "none", mntr |-> "none",
     first |-> <<>>, nlines |-> 0, parsed |-> EmptyMap,
     ruokDial |-> "none", ruok |-> "none", ruokRes |-> <<>>,
     mntrDials |-> 0, ruokDials |-> 0]

\* h of "for _, h := range options.Hosts"
host == Hosts[idx]

\* main has parsed the flags and serveMetrics listens; no request yet.
Init ==
    /\ Hosts \in TargetLists
    /\ pc = "idle"
    /\ idx = 1
    /\ metrics = EmptyMap
    /\ open = 0
    /\ log = {}
    /\ hist = [i \in 1..Len(Hosts) |-> NoHist]
    /\ solo = [i \in 1..Len(Hosts) |-> EmptyMap]
    /\ status = "none"
    /\ body = {}

\* the handler is called: getMetrics starts with an empty map.  net/http
\* serves each request on its own and survives a handler that panicked.
ServeRequest ==
    /\ pc \in {"idle", "done", "panicked"}
    /\ pc' = "resolve"
    /\ idx' = 1
    /\ metrics' = EmptyMap
    /\ log' = {}
    /\ hist' = [i \in 1..Len(Hosts) |-> NoHist]
    /\ solo' = [i \in 1..Len(Hosts) |-> EmptyMap]
    /\ status' = "pending"
    /\ body' = {}
    /\ UNCHANGED <<Hosts, open>>

\* net.ResolveTCPAddr("tcp", host)
Resolve ==
    /\ pc = "resolve"
    /\ idx <= Len(Hosts)
    /\ \E ok \in BOOLEAN :
          IF ok
          THEN /\ pc' = "dialMntr"
               /\ hist' = [hist EXCEPT ![idx].resolve = "ok"]
               /\ UNCHANGED <<idx, metrics, log, solo>>
          ELSE /\ log' = log \cup {LogCannotResolve(host)}
               /\ metrics' = onResolveError(metrics, host)
               /\ solo' = [solo EXCEPT ![idx] = onResolveError(@, host)]
               /\ hist' = [hist EXCEPT ![idx].resolve = "fail"]
               /\ idx' = idx + 1
               /\ pc' = "resolve"
    /\ UNCHANGED <<Hosts, open, status, body>>

\* conn, err := dial(...) for mntr
DialMntr ==
    /\ pc = "dialMntr"
    /\ \E ok \in BOOLEAN :
          IF ok
          THEN /\ open' = open + 1
               /\ pc' = "mntr"
               /\ hist' = [hist EXCEPT ![idx].mntrDial = "ok",
                                        ![idx].mntrDials = @ + 1]
               /\ UNCHANGED <<idx, metrics, log, solo>>
          ELSE /\ log' = log \cup {LogCannotConnect(host)}
               /\ metrics' = onConnectError(metrics, host)
               /\ solo' = [solo EXCEPT ![idx] = onConnectError(@, host)]
               /\ hist' = [hist EXCEPT ![idx].mntrDial = "fail",
                                        ![idx].mntrDials = @ + 1]
               /\ idx' = idx + 1
               /\ pc' = "resolve"
               /\ UNCHANGED open
    /\ UNCHANGED <<Hosts, status, body>>

\* res := sendZookeeperCmd(conn, host, "mntr") and the handling of res up to
\* the dial for ruok
SendMntrFrom(exchanges) ==
    /\ pc = "mntr"
    /\ \E x \in exchanges :
          LET lg0 == log \cup ioWarnings(x.errs, "mntr", host)
              r == onMntrResponse(x.res, host, metrics, lg0)
              s == onMntrResponse(x.res, host, solo[idx], {})
              p == onMntrResponse(x.res, host, EmptyMap, {})
          IN  /\ open' = afterSend(open, x.errs)
              /\ metrics' = r.m
              /\ log' = r.lg
              /\ solo' = [solo EXCEPT ![idx] = s.m]
              /\ hist' = [hist EXCEPT
                    ![idx].mntr = r.next,
                    ![idx].first = responseLines(x.res)[1],
                    ![idx].nlines = Len(responseLines(x.res)),
                    ![idx].parsed = IF r.next = "continue" THEN EmptyMap ELSE p.m]
              /\ IF r.next = "continue"
                 THEN idx' = idx + 1 /\ pc' = "resolve"
                 ELSE IF r.next = "panic"
                 THEN pc' = "panicked" /\ UNCHANGED idx
                 ELSE pc' = "dialRuok" /\ UNCHANGED idx
    /\ UNCHANGED <<Hosts, status, body>>

SendMntr == SendMntrFrom(MntrExchanges)

\* conn, err := dial(...) for ruok
DialRuok ==
    /\ pc = "dialRuok"
    /\ \E ok \in BOOLEAN :
          IF ok
          THEN /\ open' = open + 1
               /\ pc' = "ruok"
               /\ hist' = [hist EXCEPT ![idx].ruokDial = "ok",
                                        ![idx].ruokDials = @ + 1]
               /\ UNCHANGED <<idx, metrics, solo>>
          ELSE /\ metrics' = onRuokConnectError(metrics, host)
               /\ solo' = [solo EXCEPT ![idx] = onRuokConnectError(@, host)]
               /\ hist' = [hist EXCEPT ![idx].ruokDial = "fail",
                                        ![idx].ruokDials = @ + 1]
               /\ idx' = idx + 1
               /\ pc' = "resolve"
               /\ UNCHANGED open
    /\ UNCHANGED <<Hosts, log, status, body>>

\* res = sendZookeeperCmd(conn, host, "ruok") and the rest of the loop body
SendRuok ==
    /\ pc = "ruok"
    /\ \E x \in RuokExchanges :
          /\ open' = afterSend(open, x.errs)
          /\ log' = log \cup ioWarnings(x.errs, "ruok", host)
                        \cup (IF x.res # imok /\ Contains(x.res, cmdNotExecutedSffx)
                              THEN {LogNotAllowed("ruok", host)} ELSE {})
          /\ metrics' = onRuokResponse(x.res, host, metrics)
          /\ solo' = [solo EXCEPT ![idx] = onRuokResponse(x.res, host, @)]
          /\ hist' = [hist EXCEPT ![idx].ruok = "done", ![idx].ruokRes = x.res]
    /\ idx' = idx + 1
    /\ pc' = "resolve"
    /\ UNCHANGED <<Hosts, status, body>>

\* the range loop is over: return metrics
Return ==
    /\ pc = "resolve"
    /\ idx > Len(Hosts)
    /\ pc' = "render"
    /\ UNCHANGED <<Hosts, idx, metrics, open, log, hist, solo, status, body>>

\* the handler writes "%s %s\n" for every entry, in no particular order
renderLine(k, v) == k \o <<" ">> \o v \o <<"\n">>

Render ==
    /\ pc = "render"
    /\ body' = {renderLine(k, metrics[k]) : k \in DOMAIN metrics}
    /\ status' = "200"
    /\ pc' = "done"
    /\ UNCHANGED <<Hosts, idx, metrics, open, log, hist, solo>>

Next ==
    \/ ServeRequest
    \/ Resolve
    \/ DialMntr
    \/ SendMntr
    \/ DialRuok
    \/ SendRuok
    \/ Return
    \/ Render

Spec == Init /\ [][Next]_vars

(***************************************************************************)
(* The same handler and one target, with a peer that answers mntr with a   *)
(* single line                                                             *)
(***************************************************************************)
InitLine ==
    /\ Hosts = <<AllHostNames[1]>>
    /\ pc = "idle"
    /\ idx = 1
    /\ metrics = EmptyMap
    /\ open = 0
    /\ log = {}
    /\ hist = [i \in 1..Len(Hosts) |-> NoHist]
    /\ solo = [i \in 1..Len(Hosts) |-> EmptyMap]
    /\ status = "none"
    /\ body = {}

SendMntrLine == SendMntrFrom(LineExchanges)

NextLine ==
    \/ ServeRequest
    \/ Resolve
    \/ DialMntr
    \/ SendMntrLine
    \/ DialRuok
    \/ SendRuok
    \/ Return
    \/ Render

SpecLine == InitLine /\ [][NextLine]_vars

(***************************************************************************)
(* The same handler with configured lists that may name a host again       *)
(***************************************************************************)
\* n entries: n - d different hosts, then the first host d more times
RepeatLists ==
    {[i \in 1..n |-> IF i <= n - d THEN AllHostNames[i] ELSE AllHostNames[1]] :
        n \in 1..NumHosts, d \in 0..(NumHosts - 1)}

InitDup ==
    /\ Hosts \in RepeatLists
    /\ pc = "idle"
    /\ idx = 1
    /\ metrics = EmptyMap
    /\ open = 0
    /\ log = {}
    /\ hist = [i \in 1..Len(Hosts) |-> NoHist]
    /\ solo = [i \in 1..Len(Hosts) |-> EmptyMap]
    /\ status = "none"
    /\ body = {}

SpecDup == InitDup /\ [][Next]_vars

(***************************************************************************)
(* main: from the command line to serveMetrics                             *)
(***************************************************************************)
\* the text of a list of hosts with commas between them
RECURSIVE Join(_)
Join(l) ==
    IF Len(l) = 0 THEN <<>>
    ELSE IF Len(l) = 1 THEN <<l[1]>>
    ELSE <<l[1], ",">> \o Join(Tail(l))

\* What -zk-hosts can hold: nothing (the default ""), or a list of hosts
ZkHostsFlags == {<<>>} \cup {Join(t) : t \in TargetLists}

\* What the three -zk-tls-auth flags can hold, and whether
\* tls.LoadX509KeyPair accepts the two files
TlsFlags ==
    [auth : BOOLEAN, cert : {"", "cert.pem"}, key : {"", "key.pem"},
     loads : BOOLEAN]

\* hosts := strings.Split(*zkhosts, ",")
splitHosts(zkhosts) ==
    LET parts == Split(zkhosts, ",")
    IN  [i \in 1..Len(parts) |-> Flat(parts[i])]

\* the process has been started and main has not run yet
InitMain ==
    /\ Hosts = <<>>
    /\ pc = "main"
    /\ idx = 1
    /\ metrics = EmptyMap
    /\ open = 0
    /\ log = {}
    /\ hist = <<>>
    /\ solo = <<>>
    /\ status = "none"
    /\ body = {}

\* main up to the call of serveMetrics, or up to log.Fatal
Main ==
    /\ pc = "main"
    /\ \E parsed \in BOOLEAN, tls \in TlsFlags, zkhosts \in ZkHostsFlags :
          IF \/ ~parsed
             \/ tls.auth /\ (tls.cert = "" \/ tls.key = "" \/ ~tls.loads)
             \/ Len(splitHosts(zkhosts)) = 0
          THEN /\ pc' = "exited"
               /\ UNCHANGED <<Hosts, hist, solo>>
          ELSE /\ pc' = "idle"
               /\ Hosts' = splitHosts(zkhosts)
               /\ hist' = [i \in 1..Len(splitHosts(zkhosts)) |-> NoHist]
               /\ solo' = [i \in 1..Len(splitHosts(zkhosts)) |-> EmptyMap]
    /\ UNCHANGED <<idx, metrics, open, log, status, body>>

NextMain == Main \/ Next

SpecMain == InitMain /\ [][NextMain]_vars

(***************************************************************************)
(* Properties                                                              *)
(***************************************************************************)
Targets == 1..Len(Hosts)

\* list entry i has been probed to the end of the loop body
Probed(i) == i < idx

\* the snapshot has been returned by getMetrics
Returned == pc \in {"render", "done"}

\* the keys of m that carry the label of host hn, and m restricted to them
HostKeys(m, hn) == {k \in DOMAIN m : Contains(k, hostLabel(hn))}
HostEntries(m, hn) == [k \in HostKeys(m, hn) |-> m[k]]

\* the mntr exchange of entry i has taken place
MntrAnswered(i) == hist[i].mntr # "none"

\* the lines of the response body that start with the key k and a space
BodyLines(k) ==
    {l \in body : Len(l) > Len(k) /\ SubSeq(l, 1, Len(k) + 1) = k \o <<" ">>}

\* host hn has its zk_up entry in the snapshot, with value "1" or "0", and
\* a rendered response shows it on exactly one line
HasUp(hn) ==
    /\ zkUp(hn) \in DOMAIN metrics
    /\ metrics[zkUp(hn)] \in {One, Zero}
    /\ pc = "done" => Cardinality(BodyLines(zkUp(hn))) = 1

C2_NoUpAfterIOFailure ==
    Returned =>
        \A i \in Targets :
            (LogSendFailed("mntr", Hosts[i]) \in log
                \/ LogReadFailed("mntr", Hosts[i]) \in log)
            => ~(zkUp(Hosts[i]) \in DOMAIN metrics
                    /\ metrics[zkUp(Hosts[i])] = One)

\* C3: the entries of every target whose connection did not fail are those
\* its probing writes into an empty map, whichever other targets of the list
\* failed to connect and wherever they stand.
C3_FailureIsolation ==
    \A i \in Targets :
        (Probed(i) /\ hist[i].mntrDial # "fail") =>
            HostEntries(metrics, Hosts[i]) = solo[i]

C3_Witness ==
    /\ pc = "done"
    /\ Len(Hosts) = 2
    /\ hist[1].ruok = "done"
    /\ hist[1].parsed # EmptyMap
    /\ hist[2].mntrDial = "fail"

\* C4 as stated: whatever a peer answers, getMetrics goes through all
\* targets and returns; no scrape ends in a panic.
C4_NoScrapePanics == pc # "panicked"

\* C5: after a failed connection attempt for mntr the host has the single
\* entry zk_up = "0", and neither the mntr exchange nor a ruok connection
\* was made for it.
C5_ConnectFailure ==
    \A i \in Targets :
        (Probed(i) /\ hist[i].mntrDial = "fail") =>
            /\ HostKeys(metrics, Hosts[i]) = {zkUp(Hosts[i])}
            /\ metrics[zkUp(Hosts[i])] = Zero
            /\ hist[i].mntr = "none"
            /\ hist[i].ruokDial = "none"
            /\ hist[i].ruok = "none"

C5_Witness ==
    /\ Returned
    /\ \E i \in Targets : hist[i].mntrDial = "fail"
    /\ \E i \in Targets : hist[i].ruok = "done"

\* C6: after a failed address resolution no connection was attempted for
\* the target and no key of the map carries its host label.
C6_ResolveFailure ==
    \A i \in Targets :
        (Probed(i) /\ hist[i].resolve = "fail") =>
            /\ HostKeys(metrics, Hosts[i]) = {}
            /\ hist[i].mntrDial = "none"
            /\ hist[i].ruokDial = "none"

C6_Witness ==
    /\ Returned
    /\ metrics # EmptyMap
    /\ \E i \in Targets : hist[i].resolve = "fail"

\* C7: a host has exactly the entries zk_up = "1" and zk_server_leader = "1",
\* and no ruok connection, when the first line of its mntr response is the
\* not-serving message; and a response takes that shortcut for no other
\* first line.
C7_NotServing ==
    \A i \in Targets :
        (Probed(i) /\ MntrAnswered(i)) =>
            /\ hist[i].first = instanceNotServingMessage =>
                  /\ HostEntries(metrics, Hosts[i])
                        = Put(Put(EmptyMap, zkUp(Hosts[i]), One),
                              zkLeader(Hosts[i]), One)
                  /\ hist[i].ruokDial = "none"
            /\ (hist[i].mntr = "continue"
                    /\ hist[i].first # instanceNotServingMessage)
                  => Contains(hist[i].first, cmdNotExecutedSffx)

C7_Witness ==
    /\ Returned
    /\ \E i \in Targets :
          /\ hist[i].first = instanceNotServingMessage
          /\ hist[i].nlines > 1
          /\ hist[i].mntr = "continue"

\* C8: a host whose first mntr line contains the whitelist message has the
\* single entry zk_up = "0", the warning for "mntr" and this host is in the
\* log, no line was parsed and no ruok connection was made.
C8_NotAllowed ==
    \A i \in Targets :
        (Probed(i) /\ MntrAnswered(i)
            /\ Contains(hist[i].first, cmdNotExecutedSffx)) =>
            /\ HostEntries(metrics, Hosts[i]) = Put(EmptyMap, zkUp(Hosts[i]), Zero)
            /\ LogNotAllowed("mntr", Hosts[i]) \in log
            /\ hist[i].parsed = EmptyMap
            /\ hist[i].ruokDial = "none"

C8_Witness ==
    /\ Returned
    /\ \E i \in Targets :
          /\ Contains(hist[i].first, cmdNotExecutedSffx)
          /\ hist[i].nlines > 2
          /\ hist[i].mntr = "continue"

\* C9 as stated: for every mntr response that is neither of the two
\* shortcut shapes, control goes on to the ruok probe.
C9_RuokAlwaysIssued ==
    \A i \in Targets :
        (MntrAnswered(i)
            /\ hist[i].first # instanceNotServingMessage
            /\ ~Contains(hist[i].first, cmdNotExecutedSffx))
        => hist[i].mntr = "ruok"

\* C10: after a normal mntr response and a failed connection for ruok the
\* host has zk_ruok = "0" and zk_up = "1", and every entry the line loop
\* wrote is in the map with its value.
C10_RuokConnectFailure ==
    \A i \in Targets :
        (Probed(i) /\ hist[i].mntr = "ruok" /\ hist[i].ruokDial = "fail") =>
            /\ metrics[zkRuok(Hosts[i])] = Zero
            /\ metrics[zkUp(Hosts[i])] = One
            /\ \A k \in DOMAIN hist[i].parsed :
                  k \in DOMAIN metrics /\ metrics[k] = hist[i].parsed[k]

C10_Witness ==
    /\ Returned
    /\ \E i \in Targets :
          /\ hist[i].ruokDial = "fail"
          /\ Cardinality(DOMAIN hist[i].parsed) >= 2

(***************************************************************************)
(* Properties of the line loop, stated on the line as the peer sent it     *)
(***************************************************************************)
IsSep(t) == t \in {" ", "\t"}
HasSep(l) == \E j \in 1..Len(l) : IsSep(l[j])
FirstSep(l) ==
    CHOOSE j \in 1..Len(l) : IsSep(l[j]) /\ \A n \in 1..(j - 1) : ~IsSep(l[n])

\* the text before the first space or tab of a line, and the whole
\* remainder after it with its tabs turned into spaces
LineKey(l) == IF HasSep(l) THEN SubSeq(l, 1, FirstSep(l) - 1) ELSE l
LineValue(l) ==
    IF HasSep(l)
    THEN [j \in 1..(Len(l) - FirstSep(l)) |->
            IF l[FirstSep(l) + j] = "\t" THEN " " ELSE l[FirstSep(l) + j]]
    ELSE <<>>

\* the mntr answer of entry i was one line and the newline that ends it, and
\* the line loop has gone through it
OneLine(i) == hist[i].mntr = "ruok" /\ hist[i].nlines = 2
LineOf(i) == hist[i].first

IsGenericKey(k) ==
    k \notin {<<"zk_server_state">>, <<"zk_version">>, <<"zk_peer_state">>, <<>>}

\* hyphens and dots turned into underscores
Underscored(k) ==
    [j \in 1..Len(k) |-> IF k[j] \in {"-", "."} THEN "_" ELSE k[j]]

\* the line loop of entry i wrote exactly one entry: name = v
EmitsOnly(i, name, v) ==
    \E k \in DOMAIN hist[i].parsed :
        /\ DOMAIN hist[i].parsed = {k}
        /\ Flat(k) = Flat(name)
        /\ hist[i].parsed[k] = v

\* C11 as stated: every line with a generic key emits the key with hyphens
\* and dots replaced by underscores, followed by the host label in braces,
\* with the line's value unchanged.
C11_GenericLine ==
    \A i \in Targets :
        (OneLine(i) /\ IsGenericKey(LineKey(LineOf(i)))) =>
            EmitsOnly(i,
                      Underscored(LineKey(LineOf(i)))
                          \o <<"{">> \o hostLabel(Hosts[i]) \o <<"}">>,
                      LineValue(LineOf(i)))

\* C11 amended: a line with a generic key that has no closing brace and
\* with a value that is an integer or a floating point number emits the key
\* with hyphens and dots replaced by underscores, followed by the host label
\* in braces, with the line's value unchanged.
C11_GenericNumericLine ==
    \A i \in Targets :
        (OneLine(i)
            /\ IsGenericKey(LineKey(LineOf(i)))
            /\ ~Contains(LineKey(LineOf(i)), <<"}">>)
            /\ isDigit(LineValue(LineOf(i)))) =>
            EmitsOnly(i,
                      Underscored(LineKey(LineOf(i)))
                          \o <<"{">> \o hostLabel(Hosts[i]) \o <<"}">>,
                      LineValue(LineOf(i)))

C11_Witness ==
    /\ Returned
    /\ OneLine(1)
    /\ LineOf(1) = <<"zk_foo", "-", "bar", ".", "baz", "\t", "1", ".", "0">>
    /\ hist[1].parsed # EmptyMap

\* C12 as stated: a line is split at its first space only, so what the line
\* loop writes for it is what it writes for the pair of the text before the
\* first separator and the whole remainder after it.
C12_SplitAtFirstSpace ==
    \A i \in Targets :
        (OneLine(i) /\ HasSep(LineOf(i))) =>
            hist[i].parsed =
                parseLine(LineKey(LineOf(i)), LineValue(LineOf(i)),
                          Hosts[i], EmptyMap, {}).m

\* C13 as stated: a line with an empty key, blank or beginning with a space
\* or a tab, adds no entry, whatever follows the separator.
C13_EmptyKeyIgnored ==
    \A i \in Targets :
        (OneLine(i) /\ LineKey(LineOf(i)) = <<>>) => hist[i].parsed = EmptyMap

\* digits.digits.digits at the start of a value
HasVersionPrefix(v) ==
    /\ Len(v) >= 5
    /\ \A j \in {1, 3, 5} : v[j] \in Numerals
    /\ \A j \in {2, 4} : v[j] = "."

VersionLabel(v) == IF HasVersionPrefix(v) THEN SubSeq(v, 1, 5) ELSE v

\* C14 as stated: a zk_version line emits zk_version{host,version="<v>"} =
\* "1" and nothing else, <v> being the digits.digits.digits prefix of the
\* line's value, or the raw value when it has no such prefix.
C14_VersionLabel ==
    \A i \in Targets :
        (OneLine(i) /\ HasSep(LineOf(i))
            /\ LineKey(LineOf(i)) = <<"zk_version">>) =>
            hist[i].parsed =
                Put(EmptyMap,
                    zkVersion(Hosts[i], VersionLabel(LineValue(LineOf(i)))),
                    One)

\* name{labels} with the host label as one more label before the brace
WithHostLabel(k, h) ==
    SubSeq(k, 1, Len(k) - 1) \o <<",">> \o hostLabel(h) \o <<"}">>

\* C19 as stated: a generic key that ends a label set with a closing brace
\* is emitted with its name and labels as they are and the host label added
\* inside the braces, when the value is an integer or a floating point
\* number, and not emitted otherwise.
C19_LabelledKey ==
    \A i \in Targets :
        (OneLine(i) /\ HasSep(LineOf(i))
            /\ IsGenericKey(LineKey(LineOf(i)))
            /\ LineKey(LineOf(i))[Len(LineKey(LineOf(i)))] = "}") =>
            IF isDigit(LineValue(LineOf(i)))
            THEN EmitsOnly(i, WithHostLabel(LineKey(LineOf(i)), Hosts[i]),
                           LineValue(LineOf(i)))
            ELSE hist[i].parsed = EmptyMap

\* serveMetrics has been called: the handler is registered and the process
\* listens or is about to
Serving == pc \notin {"main", "exited"}

\* C15 as stated: the process never serves with an empty target list or
\* with a list whose only element is the empty string.
C15_NoServingWithoutTargets == Serving => Hosts \notin {<<>>, <<"">>}

\* C16: at every point at most one connection is open, it is open exactly
\* while the one command it was dialled for is being exchanged, it is closed
\* when sendZookeeperCmd returns, with or without a write or read failure,
\* and none is open when getMetrics has returned.
C16_OneConnectionPerCommand ==
    /\ open = (IF pc \in {"mntr", "ruok"} THEN 1 ELSE 0)
    /\ Returned => open = 0
    /\ \A i \in Targets :
          /\ (hist[i].mntr # "none") => hist[i].mntrDial = "ok"
          /\ (hist[i].ruok # "none") => hist[i].ruokDial = "ok"
          /\ (Probed(i) /\ hist[i].mntrDial = "ok") => hist[i].mntr # "none"
          /\ (Probed(i) /\ hist[i].ruokDial = "ok") => hist[i].ruok = "done"

C16_Witness ==
    /\ Returned
    /\ \E i \in Targets :
          /\ LogSendFailed("mntr", Hosts[i]) \in log
          /\ LogReadFailed("mntr", Hosts[i]) \in log
          /\ LogReadFailed("ruok", Hosts[i]) \in log
          /\ hist[i].ruok = "done"

\* the scrape has come to its end, with a snapshot or without one
ScrapeOver == pc \in {"done", "panicked"}

\* C17 as stated: no target is dialled more than once for mntr or more than
\* once for ruok, and a scrape whose exchanges have all returned ends after
\* the last target with a snapshot that the handler has written.
C17_OneAttemptThenSnapshot ==
    /\ \A i \in Targets : hist[i].mntrDials <= 1 /\ hist[i].ruokDials <= 1
    /\ ScrapeOver => (idx = Len(Hosts) + 1 /\ status = "200")

\* m1 with the entries of m2 written over it
Over(m1, m2) ==
    [k \in DOMAIN m1 \cup DOMAIN m2 |-> IF k \in DOMAIN m2 THEN m2[k] ELSE m1[k]]

\* The snapshot of a scrape that probes the entries in the order given, each
\* entry with the outcome it had in this scrape: probing only writes into
\* the map, so entry i writes solo[i] over what is there.
RECURSIVE SnapshotIn(_, _)
SnapshotIn(order, n) ==
    IF n = 0 THEN EmptyMap ELSE Over(SnapshotIn(order, n - 1), solo[order[n]])

\* the orders in which the entries of the list can be probed
Orders == {o \in [Targets -> Targets] : \A i, j \in Targets : o[i] = o[j] => i = j}

\* every key written for entry i carries the label of its host
KeysLabelled == \A i \in Targets : DOMAIN solo[i] = HostKeys(solo[i], Hosts[i])

\* the keys written for two entries are disjoint
KeysDisjoint ==
    \A i, j \in Targets : i # j => DOMAIN solo[i] \cap DOMAIN solo[j] = {}

\* the returned snapshot is the one of every order
SameInEveryOrder ==
    Returned => \A o \in Orders : SnapshotIn(o, Len(Hosts)) = metrics

\* no host is named twice in the configured list
EachHostOnce == \A i, j \in Targets : Hosts[i] = Hosts[j] => i = j

\* C18 as stated: the keys written for an entry carry its host label, the
\* keys of two entries are disjoint and the snapshot is the same for every
\* order of probing, also when the list names a host more than once.
C18_OrderIndependent == KeysLabelled /\ KeysDisjoint /\ SameInEveryOrder

\* C18 amended: the keys written for an entry carry its host label, and
\* when the list names every host once the keys of two entries are disjoint
\* and the snapshot is the same for every order of probing.
C18_OrderIndependentEachHostOnce ==
    /\ KeysLabelled
    /\ EachHostOnce => (KeysDisjoint /\ SameInEveryOrder)

C18_Witness ==
    /\ Returned
    /\ Len(Hosts) = 2
    /\ EachHostOnce
    /\ hist[1].mntr = "ruok"
    /\ hist[1].parsed # EmptyMap
    /\ hist[2].mntrDial = "fail"

====
